---- MODULE Spec2Model ----
(***************************************************************************)
(* Model of the match-formation state machine of the tournament bot         *)
(* (src/comm.py) and of the store functions it calls (src/db.py).           *)
(*                                                                         *)
(* The bot runs on one asyncio event loop: a handler runs without           *)
(* interruption until it awaits something that really suspends (a request   *)
(* to the chat platform, View.wait()).  The functions of db.py are          *)
(* `async def` but contain no suspending await, so `await db.f(...)` runs   *)
(* f to completion inside the caller's step.  Each action below is one      *)
(* such uninterrupted stretch of a handler.                                 *)
(***************************************************************************)
EXTENDS Integers, Sequences, FiniteSets, TLC

(***************************************************************************)
(* Bounds of the model.                                                    *)
(***************************************************************************)
\* participants known to the guild: 1..NumParticipants
NumParticipants == 11
\* events off the plain path of a match per behaviour: rejected commands,
\* leaves, votes, swap requests, timeouts of a prompt nobody answered, store
\* outages, resets of a busy queue, clicks by the wrong user, and any event
\* that arrives while a handler is suspended in a request to Discord
MaxOffPath == 1
\* rows the matches table can take
MaxMatches == 2
\* reported matches after which nobody joins a queue any more
MaxReports == 1

Participants == 1..NumParticipants
QueueNums == {1}
\* who sends voice-leave events, who casts votes, which buttons they press
Leavers == {1, 10}
Voters == {1, 2}
CaptainChoices == {2, 3}
MapChoices == {"Plaza", "Castello"}
\* the options a captain selects: the first, and the ninth, which only a
\* draft after a captain swap offers
PickChoices == {0, 8}
\* the positions random.sample and random.choice draw from
SamplePositions == {1, 2}
Teams == {1, 2}

(***************************************************************************)
(* Program constants.                                                      *)
(***************************************************************************)
map_pool == <<"Plaza", "Castello", "Village", "Canals", "Legacy", "Raid", "Grounded", "Bureau">>
QUEUE_SIZE == 10
WIN_POINTS == 20
LOSS_POINTS == 0
\* Python's None where the other values are integers, and an attribute that
\* was never assigned (reading it raises AttributeError)
None == -1
NoAttr == -2

(***************************************************************************)
(* Python lists and collections.Counter.                                   *)
(***************************************************************************)
Range(s) == {s[i] : i \in 1..Len(s)}

\* x in s
Contains(s, x) == \E i \in 1..Len(s) : s[i] = x

\* s.remove(x): the first occurrence goes
ListRemove(s, x) ==
    LET i == CHOOSE k \in 1..Len(s) : s[k] = x /\ \A j \in 1..(k - 1) : s[j] # x
    IN  SubSeq(s, 1, i - 1) \o SubSeq(s, i + 1, Len(s))

\* s.pop(i), i counted from 0: the list that is left
ListPop(s, i) == SubSeq(s, 1, i) \o SubSeq(s, i + 2, Len(s))

\* [p for p in s if p not in t]
ListMinus(s, t) == SelectSeq(s, LAMBDA p : ~Contains(t, p))

\* A Counter is the sequence of its <<key, count>> items in insertion order.
CounterKeys(c) == {c[i][1] : i \in 1..Len(c)}

\* c[k] += 1
CounterInc(c, k) ==
    IF k \in CounterKeys(c)
    THEN [i \in 1..Len(c) |-> IF c[i][1] = k THEN <<k, c[i][2] + 1>> ELSE c[i]]
    ELSE Append(c, <<k, 1>>)

\* c[k], which is 0 for a key the Counter does not hold
CounterCount(c, k) ==
    IF k \in CounterKeys(c) THEN (CHOOSE item \in Range(c) : item[1] = k)[2] ELSE 0

CounterTotal(c) ==
    LET RECURSIVE Sum(_)
        Sum(i) == IF i = 0 THEN 0 ELSE c[i][2] + Sum(i - 1)
    IN  Sum(Len(c))

\* the items in insertion order, unsorted
most_common_unsorted(c) == c

\* c.most_common(): sorted by count, largest first; the sort is stable, so
\* items with equal counts keep their insertion order
RECURSIVE most_common(_)
most_common(c) ==
    IF c = <<>> THEN <<>>
    ELSE LET i == CHOOSE k \in 1..Len(c) :
                    /\ \A j \in 1..Len(c) : c[j][2] <= c[k][2]
                    /\ \A j \in 1..(k - 1) : c[j][2] < c[k][2]
         IN  <<c[i]>> \o most_common(SubSeq(c, 1, i - 1) \o SubSeq(c, i + 1, Len(c)))

\* random.sample(s, 2): two entries at different positions, in either order
Sample2(s) ==
    {<<s[i], s[j]>> : <<i, j>> \in {w \in (1..Len(s)) \X (1..Len(s)) : w[1] # w[2]}}

\* random.choice(s)
Choice(s) == {s[i] : i \in 1..Len(s)}

\* of the outcomes of a random draw from s the model follows those made of
\* the entries at SamplePositions
Drawn(s) == {s[i] : i \in (1..Len(s)) \cap SamplePositions}

(***************************************************************************)
(* class Queue                                                             *)
(***************************************************************************)
\* Queue.__init__: match_id and match_reported are not assigned
NewQueue ==
    [players |-> <<>>, captains |-> <<>>, team1 |-> <<>>, team2 |-> <<>>,
     captain_votes |-> <<>>, map_votes |-> <<>>, voted_players |-> {},
     current_pick_index |-> 0, chosen_map |-> "None",
     match_id |-> NoAttr, match_reported |-> "NoAttr"]

\* Queue.reset
reset(queue) ==
    [players |-> <<>>, captains |-> <<>>, team1 |-> <<>>, team2 |-> <<>>,
     captain_votes |-> <<>>, map_votes |-> <<>>, voted_players |-> {},
     current_pick_index |-> 0, chosen_map |-> "None",
     match_id |-> None, match_reported |-> "False"]

\* Queue.is_full
is_full(queue) == Len(queue.players) >= QUEUE_SIZE

VARIABLES
    queues,      \* the dictionary queues: queue number -> Queue
    joins,       \* join commands suspended in a reply to the caller
    flows,       \* open views and the coroutines waiting on them
    swap_reqs,   \* swap_captains coroutines waiting on their ConfirmSwapView
    wins,        \* win commands suspended between marking and resetting
    db,          \* the store: tables matches, players, match_players
    response,    \* what the last step answered to its caller
    hist,        \* history: per fill of a roster (an accepted join that makes it
                 \* full) the captain votes opened and the match rows inserted
                 \* for it, and per match the resets of its queue by a report
    spent        \* off-path events so far

vars == <<queues, joins, flows, swap_reqs, wins, db, response, hist, spent>>

Init ==
    /\ queues = <<>>
    /\ joins = {}
    /\ flows = {}
    /\ swap_reqs = {}
    /\ wins = {}
    /\ db = [matches |-> <<>>, players |-> <<>>, match_players |-> {}]
    /\ response = "none"
    /\ hist = [sessions |-> [q \in QueueNums |-> <<>>],
               rows |-> [q \in QueueNums |-> <<>>],
               resets_of_match |-> <<>>]
    /\ spent = 0

\* a handler is suspended in a request to Discord (a reply, a message, a
\* move of a member, a permission change) and resumes when it is answered
Suspended ==
    \/ joins # {}
    \/ wins # {}
    \/ \E f \in flows : f.confirming > 0 \/ f.pc = "create_match"

\* an event off the plain path is paid from the budget; one on it is free
OffPath(isOff) ==
    IF isOff \/ Suspended THEN spent < MaxOffPath /\ spent' = spent + 1 ELSE spent' = spent

\* a suspended handler resumes
Resumes == spent' = spent

\* the smallest identifier no record of the set S carries
FreshId(S) == CHOOSE n \in 1..(Cardinality(S) + 1) :
                  /\ n \notin {x.id : x \in S}
                  /\ \A m \in 1..(n - 1) : m \in {x.id : x \in S}

\* queues[queue_num], created on first use (join, lines 356-360)
get_or_create(q) == IF q \in DOMAIN queues THEN queues[q] ELSE NewQueue

\* a dictionary that holds one Queue object under every key
SetQueue_shared(q, queue) == [k \in DOMAIN queues \cup {q} |-> queue]

SetQueue(q, queue) == [k \in DOMAIN queues \cup {q} |-> IF k = q THEN queue ELSE queues[k]]

(***************************************************************************)
(* /join                                                                   *)
(***************************************************************************)
\* the title of the reply (lines 362-389)
join_reply(queue, p) ==
    IF Contains(queue.players, p) THEN "Already in Queue"
    ELSE IF Len(queue.players) >= QUEUE_SIZE THEN "Queue Full"
    ELSE "Queue Update"

\* a join without the capacity check of line 369
join_players_uncapped(queue, p) ==
    IF Contains(queue.players, p) THEN queue.players ELSE Append(queue.players, p)

\* queue.players after the if / elif / else (lines 362-377)
join_players(queue, p) ==
    IF Contains(queue.players, p) THEN queue.players
    ELSE IF Len(queue.players) >= QUEUE_SIZE THEN queue.players
    ELSE Append(queue.players, p)

\* join up to its reply (lines 356-389): the command suspends in ctx.respond
JoinBegin(q, p) ==
    LET queue == get_or_create(q)
    IN  /\ Cardinality({m \in 1..Len(db.matches) : db.matches[m].winner_team # None})
              < MaxReports
        /\ OffPath(join_reply(queue, p) # "Queue Update")
        /\ queues' = SetQueue(q, [queue EXCEPT !.players = join_players(queue, p)])
        /\ joins' = joins \cup {[id |-> FreshId(joins), q |-> q, user |-> p, pc |-> "replied",
                                 reply |-> join_reply(queue, p)]}   \* history: its answer
        /\ response' = join_reply(queue, p)
        /\ hist' = IF ~is_full(queue) /\ Len(join_players(queue, p)) >= QUEUE_SIZE
                   THEN [hist EXCEPT !.sessions[q] = Append(@, 0), !.rows[q] = Append(@, 0)]
                   ELSE hist
        /\ UNCHANGED <<flows, swap_reqs, wins, db>>

\* join after its reply (lines 391-397): whoever the caller was and whatever
\* the reply said, a full queue is announced
JoinCheckFull(j) ==
    /\ j.pc = "replied"
    /\ IF is_full(queues[j.q])
       THEN /\ joins' = (joins \ {j}) \cup {[j EXCEPT !.pc = "announced"]}
            /\ response' = "Queue Full!"
       ELSE /\ joins' = joins \ {j}
            /\ response' = "none"
    /\ Resumes
    /\ UNCHANGED <<queues, flows, swap_reqs, wins, db, hist>>

\* a flow: one chain VotingView -> CaptainSwapView -> pick_players ->
\* MapVotingView -> finalize_map_vote, with the locals of its closures
NewFlow(id, q, players) ==
    [id |-> id, q |-> q, pc |-> "VotingView",
     fill |-> Len(hist.sessions[q]),   \* history: the fill it was opened for
     buttons |-> players,        \* VotingView.__init__: one VoteButton per player
     votes |-> {},               \* VotingView.votes: <<voter, candidate>>
     turn_order |-> <<>>, remaining |-> <<>>, current_captain |-> None,
     n_options |-> 0, selected_index |-> None, confirming |-> 0,
     chosen_map |-> "None",
     outlived_reset |-> FALSE]   \* history: its queue was reset while it waited

\* start_captain_voting (lines 400-462)
start_captain_voting(q) ==
    /\ queues' = [queues EXCEPT ![q].captain_votes = <<>>]
    /\ flows' = flows \cup {NewFlow(FreshId(flows), q, queues[q].players)}
    /\ hist' = [hist EXCEPT !.sessions[q][Len(hist.sessions[q])] = @ + 1]

\* join, line 398
JoinStartVoting(j) ==
    /\ j.pc = "announced"
    /\ start_captain_voting(j.q)
    /\ joins' = joins \ {j}
    /\ response' = "Captain Voting"
    /\ Resumes
    /\ UNCHANGED <<swap_reqs, wins, db>>

(***************************************************************************)
(* on_voice_state_update, leaving a queue channel (lines 240-261)           *)
(***************************************************************************)
Leave(q, member) ==
    /\ OffPath(TRUE)
    /\ IF q \in DOMAIN queues /\ Contains(queues[q].players, member)
       THEN /\ queues' = [queues EXCEPT ![q].players = ListRemove(@, member)]
            /\ response' = "Queue Update"
       ELSE /\ queues' = queues
            /\ response' = "none"
    /\ UNCHANGED <<joins, flows, swap_reqs, wins, db, hist>>

\* a handler or a view of the queue is waiting; the reset of a queue that is
\* filling and has nothing waiting is on the plain path
Busy(q) ==
    \/ \E j \in joins : j.q = q
    \/ \E f \in flows : f.q = q
    \/ \E r \in swap_reqs : r.q = q
    \/ \E w \in wins : w.q = q

(***************************************************************************)
(* /resetqueue (lines 1051-1066)                                           *)
(***************************************************************************)
\* history: the views and coroutines that wait on queue q while it is
\* reset; Queue.reset does not know them and leaves them waiting
OutliveReset(q) == {[f EXCEPT !.outlived_reset = (@ \/ f.q = q)] : f \in flows}

ResetQueue(q) ==
    /\ OffPath(Busy(q) \/ (q \in DOMAIN queues /\ is_full(queues[q])))
    /\ IF q \in DOMAIN queues
       THEN /\ queues' = [queues EXCEPT ![q] = reset(@)]
            /\ flows' = OutliveReset(q)
            /\ response' = "Queue Reset"
       ELSE /\ UNCHANGED <<queues, flows>>
            /\ response' = "Queue Not Found"
    /\ UNCHANGED <<joins, swap_reqs, wins, db, hist>>

(***************************************************************************)
(* db.py.  `ok` says whether the store can be reached during the call;     *)
(* every function catches the connector's Error and reports failure to its *)
(* caller by its return value.                                             *)
(***************************************************************************)
ZeroRow == [points |-> 0, matches_played |-> 0, wins |-> 0]

\* create_player (lines 187-209): INSERT IGNORE
create_player(store, ok, discord_id, points) ==
    IF ok /\ discord_id \notin DOMAIN store.players
    THEN [store EXCEPT !.players =
            [k \in DOMAIN @ \cup {discord_id} |->
                IF k = discord_id THEN [ZeroRow EXCEPT !.points = points] ELSE @[k]]]
    ELSE store

\* get_player_points (lines 166-185): a player without a row gets one
get_player_points(store, ok, discord_id) == create_player(store, ok, discord_id, 0)

\* what get_player_stats returns when the store cannot be reached: None
NoStats == [points |-> None, matches_played |-> None, wins |-> None]

\* get_player_stats (lines 237-260): the dictionary it returns
get_player_stats(store, ok, discord_id) ==
    IF ~ok THEN NoStats
    ELSE IF discord_id \in DOMAIN store.players THEN store.players[discord_id]
    ELSE ZeroRow

\* get_player_stats: the store after the call; a player without a row is
\* given one by create_player (line 250)
get_player_stats_store(store, ok, discord_id) ==
    IF ~ok THEN store
    ELSE IF discord_id \in DOMAIN store.players THEN store
    ELSE create_player(store, ok, discord_id, 0)

\* update_player_points (lines 211-235): INSERT ... ON DUPLICATE KEY UPDATE
update_player_points(store, ok, discord_id, points_to_add, win) ==
    IF ~ok THEN store
    ELSE LET old == IF discord_id \in DOMAIN store.players
                    THEN store.players[discord_id] ELSE ZeroRow
             new == [points |-> old.points + points_to_add,
                     matches_played |-> old.matches_played + 1,
                     wins |-> old.wins + (IF win THEN 1 ELSE 0)]
         IN  [store EXCEPT !.players =
                [k \in DOMAIN @ \cup {discord_id} |-> IF k = discord_id THEN new ELSE @[k]]]

\* get_player_points for every player of a list, in order
RECURSIVE points_of_all(_, _, _)
points_of_all(store, ok, team) ==
    IF team = <<>> THEN store
    ELSE points_of_all(get_player_points(store, ok, Head(team)), ok, Tail(team))

\* create_match (lines 289-308): the store after the call
create_match_store(store, ok, queue_num, team1_captain, team2_captain, map_played) ==
    IF ok
    THEN [store EXCEPT !.matches = Append(@,
            [queue_number |-> queue_num, team1_captain |-> team1_captain,
             team2_captain |-> team2_captain, winner_team |-> None,
             map_played |-> map_played])]
    ELSE store

\* a create_match that returns an identifier although nothing was inserted
create_match_id_unbacked(store, ok) == Len(store.matches) + 1

\* create_match: what it returns, cursor.lastrowid or None
create_match_id(store, ok) == IF ok THEN Len(store.matches) + 1 ELSE None

\* register_players_in_match (lines 310-341): the rows of match_players are
\* committed together at the end, each create_player commits on its own; a
\* player met a second time breaks the primary key and ends the function
register_players_in_match(store, ok, match_id, team1, team2) ==
    IF ~ok THEN store
    ELSE LET entries == [i \in 1..Len(team1) |-> <<team1[i], 1>>]
                        \o [i \in 1..Len(team2) |-> <<team2[i], 2>>]
             dups == {i \in 1..Len(entries) : \E j \in 1..(i - 1) : entries[j][1] = entries[i][1]}
             n == IF dups = {} THEN Len(entries)
                  ELSE (CHOOSE i \in dups : \A k \in dups : i <= k) - 1
             withPlayers == points_of_all(store, TRUE, [i \in 1..n |-> entries[i][1]])
         IN  IF n = Len(entries)
             THEN [withPlayers EXCEPT !.match_players =
                      @ \cup {<<match_id, entries[i][1], entries[i][2]>> : i \in 1..n}]
             ELSE withPlayers

\* update_match_winner (lines 343-360): the store after the call
update_match_winner(store, ok, match_id, winning_team) ==
    IF ok /\ match_id \in 1..Len(store.matches)
    THEN [store EXCEPT !.matches[match_id].winner_team = winning_team]
    ELSE store

(***************************************************************************)
(* Captain vote: VoteButton.callback, VotingView.on_timeout,               *)
(* finalize_captains                                                       *)
(***************************************************************************)
UpdateFlow(f, g) == (flows \ {f}) \cup {g}

\* a participant who is never drawn as a captain by the bounded choices
Outsiders == {NumParticipants}

\* VoteButton.callback (lines 428-448)
VoteButton_callback(f, user, candidate) ==
    LET queue == queues[f.q]
    IN  /\ f.pc = "VotingView"
        /\ Contains(f.buttons, candidate)
        /\ IF ~Contains(queue.players, user)
           THEN /\ response' = "You are not in the queue"
                /\ UNCHANGED <<queues, flows>>
           ELSE IF \E v \in f.votes : v[1] = user
           THEN /\ response' = "You already voted"
                /\ UNCHANGED <<queues, flows>>
           ELSE /\ queues' = [queues EXCEPT ![f.q].captain_votes = CounterInc(@, candidate)]
                /\ flows' = UpdateFlow(f, [f EXCEPT !.votes = @ \cup {<<user, candidate>>}])
                /\ response' = "You voted"
        /\ UNCHANGED <<joins, swap_reqs, wins, db, hist>>

\* a press of a vote button, as an event off the plain path of a match
VoteCaptain(f, user, candidate) ==
    /\ OffPath(TRUE)
    /\ VoteButton_callback(f, user, candidate)

\* a draw that always keeps the one candidate who received votes
chosen_captains_keep_voted(queue) ==
    IF Len(queue.captain_votes) = 0 THEN Sample2(queue.players)
    ELSE IF Len(queue.captain_votes) = 1
    THEN {c \in Sample2(queue.players) : c[1] = queue.captain_votes[1][1]}
    ELSE {<<most_common(queue.captain_votes)[1][1], most_common(queue.captain_votes)[2][1]>>}

\* finalize_captains (lines 471-495): the lists `chosen` can be
chosen_captains(queue) ==
    IF Len(queue.captain_votes) < 2
    THEN Sample2(queue.players)
    ELSE {<<most_common(queue.captain_votes)[1][1], most_common(queue.captain_votes)[2][1]>>}

\* VotingView.on_timeout -> finalize_captains (lines 459-460, 464-637);
\* random.sample raises ValueError on fewer than 2 players
VotingTimeout(f) ==
    LET queue == queues[f.q]
    IN  /\ f.pc = "VotingView"
        /\ IF Len(queue.captain_votes) < 2 /\ Len(queue.players) < 2
           THEN /\ flows' = flows \ {f}
                /\ response' = "none"
                /\ UNCHANGED queues
           ELSE \E chosen \in chosen_captains(queue) :
                /\ Len(queue.captain_votes) < 2 => Range(chosen) \subseteq Drawn(queue.players)
                /\ queues' = [queues EXCEPT ![f.q].captains = chosen]
                /\ flows' = UpdateFlow(f, [f EXCEPT !.pc = "CaptainSwapView",
                                                    !.buttons = <<>>, !.votes = {}])
                /\ response' = "Team Captains Selected"
        /\ OffPath(FALSE)
        /\ UNCHANGED <<joins, swap_reqs, wins, db, hist>>

(***************************************************************************)
(* CaptainSwapView: swap_captains with its ConfirmSwapView,                *)
(* continue_to_picks                                                       *)
(***************************************************************************)
\* swap_captains up to view.wait() (lines 529-572)
SwapRequest(f, user) ==
    LET queue == queues[f.q]
    IN  /\ f.pc = "CaptainSwapView"
        /\ OffPath(TRUE)
        /\ IF ~Contains(queue.captains, user)
           THEN /\ response' = "Only captains can request a swap"
                /\ UNCHANGED swap_reqs
           ELSE /\ swap_reqs' = swap_reqs \cup
                        {[id |-> FreshId(swap_reqs), q |-> f.q, user |-> user]}
                /\ response' = "Captain Swap Request"
        /\ UNCHANGED <<queues, joins, flows, wins, db, hist>>

\* ConfirmSwapView.confirm: who may press Yes (lines 541-549)
may_confirm(queue, r, user) == user = queue.captains[1] \/ user = queue.captains[2]

\* the swap itself (lines 574-589), new_captain being random.choice's draw
swap_applied(queue, r, new_captain) ==
    LET old_captain_index == IF r.user = queue.captains[1] THEN 1 ELSE 2
    IN  [queue EXCEPT
            !.players = Append(ListRemove(queue.players, new_captain),
                               queue.captains[old_captain_index]),
            !.captains = [queue.captains EXCEPT ![old_captain_index] = new_captain]]

\* ConfirmSwapView.confirm, then swap_captains after view.wait() (lines 541-620)
SwapConfirm(r, user) ==
    LET queue == queues[r.q]
        remaining_players == ListMinus(queue.players, queue.captains)
    IN  /\ r \in swap_reqs
        /\ Len(queue.captains) = 2
        /\ IF ~may_confirm(queue, r, user)
           THEN /\ OffPath(TRUE)
                /\ response' = "Only captains can confirm"
                /\ UNCHANGED <<queues, swap_reqs>>
           ELSE /\ OffPath(FALSE)
                /\ swap_reqs' = swap_reqs \ {r}
                /\ IF remaining_players = <<>>
                   THEN /\ response' = "No players available for swap"
                        /\ UNCHANGED queues
                   ELSE \E new_captain \in Choice(remaining_players) :
                        /\ new_captain \in Drawn(remaining_players)
                        /\ queues' = [queues EXCEPT ![r.q] = swap_applied(queue, r, new_captain)]
                        /\ response' = "Captain Swap Complete"
        /\ UNCHANGED <<joins, flows, wins, db, hist>>

\* ConfirmSwapView.cancel or the view's timeout (lines 551-559, 621-622)
SwapDecline(r) ==
    /\ r \in swap_reqs
    /\ swap_reqs' = swap_reqs \ {r}
    /\ response' = "Swap request declined"
    /\ OffPath(FALSE)
    /\ UNCHANGED <<queues, joins, flows, wins, db, hist>>

\* CaptainSwapView times out (lines 525-527): View.on_timeout is not
\* overridden, the view closes and nothing else happens
SwapWindowTimeout(f) ==
    /\ f.pc = "CaptainSwapView"
    /\ OffPath(TRUE)
    /\ flows' = flows \ {f}
    /\ response' = "none"
    /\ UNCHANGED <<queues, joins, swap_reqs, wins, db, hist>>

(***************************************************************************)
(* pick_players and its PickView                                           *)
(***************************************************************************)
\* display_teams (lines 785-796): reads the points of every team member
display_teams(store, ok, queue) ==
    points_of_all(points_of_all(store, ok, queue.team1), ok, queue.team2)

\* start_map_voting (lines 841-843)
start_map_voting(queue) == [queue EXCEPT !.map_votes = <<>>, !.voted_players = {}]

\* prompt_next_pick, the branch for the last player (lines 657-668)
assign_last_player(queue, last_player) ==
    IF Len(queue.team1) < Len(queue.team2)
    THEN [queue EXCEPT !.team1 = Append(@, last_player)]
    ELSE [queue EXCEPT !.team2 = Append(@, last_player)]

\* the locals of a flow that has left the draft
DraftLocalsCleared(f) ==
    [f EXCEPT !.turn_order = <<>>, !.remaining = <<>>, !.current_captain = None,
              !.n_options = 0, !.selected_index = None, !.confirming = 0]

\* prompt_next_pick (lines 656-764) up to view.wait(): the queue, the flow
\* and the store it leaves, and whether the coroutine is still alive.
\* remaining[0] raises IndexError on an empty list, and a Select without
\* options cannot be sent.
prompt_next_pick(queue, f, store, ok) ==
    IF queue.current_pick_index >= Len(f.turn_order)
    THEN IF f.remaining = <<>>
         THEN [queue |-> queue, flow |-> f, db |-> store, alive |-> FALSE]
         ELSE LET placed == assign_last_player(queue, f.remaining[1])
              IN  [queue |-> start_map_voting(placed),
                   flow |-> [DraftLocalsCleared(f) EXCEPT !.pc = "MapVotingView"],
                   db |-> display_teams(store, ok, placed),
                   alive |-> TRUE]
    ELSE IF f.remaining = <<>>
         THEN [queue |-> queue, flow |-> f, db |-> store, alive |-> FALSE]
         ELSE [queue |-> queue,
               flow |-> [f EXCEPT !.pc = "PickView",
                                  !.current_captain = f.turn_order[queue.current_pick_index + 1],
                                  !.n_options = Len(f.remaining),
                                  !.selected_index = None,
                                  !.confirming = 0],
               db |-> store, alive |-> TRUE]

\* the snake of pick_players (line 647)
turn_order_of(captains) ==
    <<captains[1], captains[2], captains[2], captains[1], captains[1], captains[2], captains[1]>>

\* pick_players up to its first prompt (lines 645-654)
pick_players_init(queue) ==
    [queue EXCEPT !.current_pick_index = 0,
                  !.team1 = <<queue.captains[1]>>,
                  !.team2 = <<queue.captains[2]>>]

\* the outcome record of prompt_next_pick becomes the next state
Prompted(f, r) ==
    /\ queues' = [queues EXCEPT ![f.q] = r.queue]
    /\ flows' = IF r.alive THEN UpdateFlow(f, r.flow) ELSE flows \ {f}
    /\ db' = r.db

\* does this call of prompt_next_pick reach display_teams, which reads the store
ReadsStore(queue, f) ==
    queue.current_pick_index >= Len(f.turn_order) /\ f.remaining # <<>>

\* CaptainSwapView.continue_to_picks (lines 624-634), then pick_players.
\* The captains do not open a second draft on a queue while one is running.
Continue(f, user, ok) ==
    LET queue == queues[f.q]
        started == pick_players_init(queue)
        g == [f EXCEPT !.turn_order = turn_order_of(queue.captains),
                       !.remaining = ListMinus(queue.players, queue.captains)]
    IN  /\ f.pc = "CaptainSwapView"
        /\ \A other \in flows : other.q = f.q => other.pc # "PickView"
        /\ IF ~Contains(queue.captains, user)
           THEN /\ ok
                /\ OffPath(TRUE)
                /\ response' = "Only captains can continue to picks"
                /\ UNCHANGED <<queues, flows, db>>
           ELSE /\ ok \/ ReadsStore(started, g)
                /\ OffPath(~ok)
                /\ Prompted(f, prompt_next_pick(started, g, db, ok))
                /\ response' = "Continuing to player selection"
        /\ UNCHANGED <<joins, swap_reqs, wins, hist>>

\* a check that lets anybody pick
is_current_captain_anybody(f, user) == TRUE

\* the guard of both callbacks of a PickView (lines 714 and 725)
is_current_captain(f, user) == user = f.current_captain

\* PlayerSelect.callback (lines 713-718)
PlayerSelect(f, user, index) ==
    /\ f.pc = "PickView"
    /\ index < f.n_options
    /\ IF ~is_current_captain(f, user)
       THEN /\ OffPath(TRUE)
            /\ response' = "It's not your turn"
            /\ UNCHANGED flows
       ELSE /\ OffPath(FALSE)
            /\ flows' = UpdateFlow(f, [f EXCEPT !.selected_index = index])
            /\ response' = "Player selected"
    /\ UNCHANGED <<queues, joins, swap_reqs, wins, db, hist>>

\* ConfirmButton.callback: the team the pick goes to (lines 730-733)
confirm_pick(queue, current_captain, pick) ==
    IF current_captain = queue.captains[1]
    THEN [queue EXCEPT !.team1 = Append(@, pick)]
    ELSE [queue EXCEPT !.team2 = Append(@, pick)]

\* ConfirmButton.callback up to ctx.send (lines 724-746).  pop(None) and
\* pop of a missing index raise before anything changed; captains[0] of an
\* emptied captains list raises after the pop.  The view stays open while
\* the callback is suspended: a further press runs the callback again.
ConfirmClick(f, user) ==
    LET queue == queues[f.q]
    IN  /\ f.pc = "PickView"
        /\ IF ~is_current_captain(f, user)
           THEN /\ OffPath(TRUE)
                /\ response' = "You can't confirm this pick"
                /\ UNCHANGED <<queues, flows>>
           ELSE /\ f.selected_index # None
                /\ f.selected_index < Len(f.remaining)
                /\ OffPath(f.confirming > 0)
                /\ IF queue.captains = <<>>
                   THEN /\ flows' = UpdateFlow(f,
                              [f EXCEPT !.remaining = ListPop(@, f.selected_index)])
                        /\ UNCHANGED queues
                   ELSE /\ flows' = UpdateFlow(f,
                              [f EXCEPT !.remaining = ListPop(@, f.selected_index),
                                        !.confirming = @ + 1])
                        /\ queues' = [queues EXCEPT ![f.q] =
                              confirm_pick(queue, f.current_captain,
                                           f.remaining[f.selected_index + 1])]
                /\ response' = "Player Picked"
        /\ UNCHANGED <<joins, swap_reqs, wins, db, hist>>

\* a cursor that jumps over the next turn
advance_skipping(queue) == [queue EXCEPT !.current_pick_index = @ + 2]

\* pick_players after view.wait() (lines 764-766)
advance(queue) == [queue EXCEPT !.current_pick_index = @ + 1]

\* ConfirmButton.callback after ctx.send: self.view.stop() (line 747) ends
\* view.wait(); callbacks still suspended then stop a view already closed
ConfirmDone(f, ok) ==
    LET queue == advance(queues[f.q])
    IN  /\ f.pc = "PickView"
        /\ f.confirming > 0
        /\ ok \/ ReadsStore(queue, f)
        /\ IF ok THEN Resumes ELSE OffPath(TRUE)
        /\ Prompted(f, prompt_next_pick(queue, f, db, ok))
        /\ response' = "none"
        /\ UNCHANGED <<joins, swap_reqs, wins, hist>>

\* PickView times out (timeout=30, line 751): view.wait() ends without a pick
PickView_timeout(f) ==
    LET queue == advance(queues[f.q])
    IN  /\ f.pc = "PickView"
        /\ f.confirming = 0
        /\ Prompted(f, prompt_next_pick(queue, f, db, TRUE))
        /\ response' = "none"
        /\ UNCHANGED <<joins, swap_reqs, wins, hist>>

\* the timeout of a prompt nobody answered, as an event off the plain path
PickTimeout(f) ==
    /\ OffPath(TRUE)
    /\ PickView_timeout(f)

(***************************************************************************)
(* Map vote: MapVoteButton.callback, MapVotingView.on_timeout,             *)
(* finalize_map_vote                                                       *)
(***************************************************************************)
\* MapVoteButton.callback (lines 871-882)
MapVoteButton_callback(f, user, map_name) ==
    LET queue == queues[f.q]
    IN  /\ f.pc = "MapVotingView"
        /\ IF ~Contains(queue.players, user)
           THEN /\ response' = "You are not in the queue"
                /\ UNCHANGED queues
           ELSE IF user \in queue.voted_players
           THEN /\ response' = "You have already voted"
                /\ UNCHANGED queues
           ELSE /\ queues' = [queues EXCEPT ![f.q].map_votes = CounterInc(@, map_name),
                                            ![f.q].voted_players = @ \cup {user}]
                /\ response' = "You voted for map"
        /\ UNCHANGED <<joins, flows, swap_reqs, wins, db, hist>>

\* a press of a map button, as an event off the plain path of a match
VoteMap(f, user, map_name) ==
    /\ OffPath(TRUE)
    /\ MapVoteButton_callback(f, user, map_name)

\* a choice that takes the first of the maps with the most votes
chosen_maps_first_top(queue) ==
    IF queue.map_votes = <<>> THEN Choice(map_pool)
    ELSE {most_common(queue.map_votes)[1][1]}

\* finalize_map_vote (lines 902-922): the maps chosen_map can be
chosen_maps(queue) ==
    IF queue.map_votes = <<>>
    THEN Choice(map_pool)
    ELSE LET top_votes == most_common(queue.map_votes)
             highest == top_votes[1][2]
         IN  {top_votes[i][1] : i \in {k \in 1..Len(top_votes) : top_votes[k][2] = highest}}

\* finalize_map_vote: queue.chosen_map is assigned in the branch with votes
\* only (line 923)
record_chosen_map(queue, chosen_map) ==
    IF queue.map_votes = <<>> THEN queue ELSE [queue EXCEPT !.chosen_map = chosen_map]

\* MapVotingView.on_timeout -> finalize_map_vote up to the requests that
\* move the players (lines 890-981); without the team voice channels it
\* returns at line 960
MapVoteTimeout(f, channels_exist) ==
    LET queue == queues[f.q]
    IN  /\ f.pc = "MapVotingView"
        /\ OffPath(~channels_exist)
        /\ \E chosen_map \in chosen_maps(queue) :
              /\ queue.map_votes = <<>> => chosen_map \in Drawn(map_pool)
              /\ queues' = [queues EXCEPT ![f.q] = record_chosen_map(queue, chosen_map)]
              /\ flows' = IF channels_exist
                          THEN UpdateFlow(f, [f EXCEPT !.pc = "create_match",
                                                       !.chosen_map = chosen_map])
                          ELSE flows \ {f}
        /\ response' = "Map Selection"
        /\ UNCHANGED <<joins, swap_reqs, wins, db, hist>>

\* finalize_map_vote, lines 993-994
store_match_id(queue, match_id) ==
    IF match_id # None THEN [queue EXCEPT !.match_id = match_id] ELSE queue

\* finalize_map_vote from create_match on (lines 991-1005); captains[0] of
\* an emptied captains list raises IndexError before the store is called
CreateMatch(f, ok) ==
    LET queue == queues[f.q]
        match_id == create_match_id(db, ok)
        created == create_match_store(db, ok, f.q, queue.captains[1], queue.captains[2],
                                      f.chosen_map)
    IN  /\ f.pc = "create_match"
        /\ Len(db.matches) < MaxMatches
        /\ IF ok THEN Resumes ELSE OffPath(TRUE)
        /\ flows' = flows \ {f}
        /\ IF queue.captains = <<>>
           THEN /\ ok
                /\ response' = "none"
                /\ UNCHANGED <<queues, db, hist>>
           ELSE /\ queues' = [queues EXCEPT ![f.q] = store_match_id(queue, match_id)]
                /\ db' = IF match_id # None
                         THEN register_players_in_match(created, ok, match_id,
                                                        queue.team1, queue.team2)
                         ELSE created
                /\ hist' = IF Len(created.matches) > Len(db.matches)
                           THEN [hist EXCEPT !.rows[f.q][f.fill] = @ + 1,
                                             !.resets_of_match = Append(@, 0)]
                           ELSE hist
                /\ response' = "Match Ready!"
        /\ UNCHANGED <<joins, swap_reqs, wins>>

(***************************************************************************)
(* /win                                                                    *)
(***************************************************************************)
\* the checks without the one of line 1396
win_check_unflagged(queue) ==
    IF queue.match_id = NoAttr THEN "AttributeError"
    ELSE IF queue.match_id = None THEN "No Active Match"
    ELSE "ok"

\* the checks before the store is touched (lines 1385-1403); a Queue that
\* was never reset has neither match_id nor match_reported
win_check(queue) ==
    IF queue.match_id = NoAttr THEN "AttributeError"
    ELSE IF queue.match_id = None THEN "No Active Match"
    ELSE IF queue.match_reported = "NoAttr" THEN "AttributeError"
    ELSE IF queue.match_reported = "True" THEN "Match Already Reported"
    ELSE "ok"

\* lines 1437-1445: the calls db.update_player_points(...) the command
\* collects in winner_points_updates and loser_points_updates.  They are
\* coroutine objects; the lists are never awaited nor gathered, so none of
\* them runs.
points_updates(queue, winning_team) ==
    LET winners == IF winning_team = 1 THEN queue.team1 ELSE queue.team2
        losers == IF winning_team = 1 THEN queue.team2 ELSE queue.team1
    IN  [i \in 1..Len(winners) |->
            [discord_id |-> winners[i], points_to_add |-> WIN_POINTS, win |-> TRUE]]
        \o [i \in 1..Len(losers) |->
            [discord_id |-> losers[i], points_to_add |-> LOSS_POINTS, win |-> FALSE]]

\* the coroutines of a list that are awaited: none (lines 1437-1448)
awaited_updates(updates) == <<>>

RECURSIVE run_updates(_, _)
run_updates(store, updates) ==
    IF updates = <<>> THEN store
    ELSE run_updates(update_player_points(store, TRUE, Head(updates).discord_id,
                                          Head(updates).points_to_add, Head(updates).win),
                     Tail(updates))

\* a command that leaves the flag for the reset at line 1512
mark_reported_late(queue) == queue

\* line 1448
mark_reported(queue) == [queue EXCEPT !.match_reported = "True"]

\* a command that ignores what update_match_winner returned
store_failed_ignored(success) == FALSE

\* line 1420: does the command give up after update_match_winner
store_failed(success) == ~success

\* /win up to the requests that reset the voice channels (lines 1373-1500)
WinCommand(q, winning_team, ok) ==
    IF q \notin DOMAIN queues
    THEN /\ ok
         /\ OffPath(TRUE)
         /\ response' = "Queue Not Found"
         /\ UNCHANGED <<queues, joins, flows, swap_reqs, wins, db, hist>>
    ELSE LET queue == queues[q]
             winners == IF winning_team = 1 THEN queue.team1 ELSE queue.team2
             losers == IF winning_team = 1 THEN queue.team2 ELSE queue.team1
         IN  IF win_check(queue) # "ok"
             THEN /\ ok
                  /\ OffPath(TRUE)
                  /\ response' = win_check(queue)
                  /\ UNCHANGED <<queues, joins, flows, swap_reqs, wins, db, hist>>
             ELSE /\ OffPath(~ok)
                  /\ IF store_failed(ok)
                     THEN /\ db' = update_match_winner(db, ok, queue.match_id, winning_team)
                          /\ response' = "Database Error"
                          /\ UNCHANGED <<queues, wins, hist>>
                     ELSE /\ db' = points_of_all(points_of_all(
                                     run_updates(
                                        update_match_winner(db, ok, queue.match_id, winning_team),
                                        awaited_updates(points_updates(queue, winning_team))),
                                     ok, winners), ok, losers)
                          /\ queues' = [queues EXCEPT ![q] = mark_reported(queue)]
                          /\ wins' = wins \cup {[id |-> FreshId(wins), q |-> q,
                                                   winning_team |-> winning_team,
                                                   match_id |-> queue.match_id]}
                          /\ hist' = hist
                          /\ response' = "none"
                  /\ UNCHANGED <<joins, flows, swap_reqs>>

\* a reset after the report that saves nothing
reset_losing_match(queue) == [reset(queue) EXCEPT !.match_reported = "True"]

\* lines 1506-1512
reset_keeping_match(queue) ==
    [reset(queue) EXCEPT !.match_id = queue.match_id,
                         !.chosen_map = queue.chosen_map,
                         !.match_reported = "True"]

\* /win from the reset on (lines 1506-1523)
WinFinish(w) ==
    /\ w \in wins
    /\ wins' = wins \ {w}
    /\ queues' = [queues EXCEPT ![w.q] = reset_keeping_match(@)]
    /\ flows' = OutliveReset(w.q)
    /\ hist' = [hist EXCEPT !.resets_of_match[w.match_id] = @ + 1]
    /\ response' = "Match Results"
    /\ Resumes
    /\ UNCHANGED <<joins, swap_reqs, db>>

(***************************************************************************)
(* /score (lines 1226-1262)                                                *)
(***************************************************************************)
ScoreCommand(member, ok) ==
    /\ db' = get_player_stats_store(db, ok, member)
    /\ response' = IF get_player_stats(db, ok, member) = NoStats
                   THEN "Player Not Found" ELSE "Player Stats"
    /\ UNCHANGED <<queues, joins, flows, swap_reqs, wins, hist, spent>>

(***************************************************************************)
(* The events the environment sends                                        *)
(***************************************************************************)
\* the next participant who is not queued, and one who is
JoinInputs(q) ==
    LET players == IF q \in DOMAIN queues THEN queues[q].players ELSE <<>>
        absent == {p \in Participants : ~Contains(players, p)}
    IN  {p \in absent : \A o \in absent : p <= o}
        \cup (IF players = <<>> THEN {} ELSE {players[1]})

Clickers(q) == Range(queues[q].captains) \cup Outsiders

Next ==
    \/ \E q \in QueueNums : \E p \in JoinInputs(q) : JoinBegin(q, p)
    \/ \E j \in joins : JoinCheckFull(j)
    \/ \E j \in joins : JoinStartVoting(j)
    \/ \E q \in QueueNums : \E member \in Leavers : Leave(q, member)
    \/ \E q \in QueueNums : ResetQueue(q)
    \/ \E f \in flows : \E user \in Voters \cup Outsiders : \E c \in CaptainChoices :
          VoteCaptain(f, user, c)
    \/ \E f \in flows : VotingTimeout(f)
    \/ \E f \in flows : \E user \in Clickers(f.q) : SwapRequest(f, user)
    \/ \E r \in swap_reqs : \E user \in Clickers(r.q) : SwapConfirm(r, user)
    \/ \E r \in swap_reqs : SwapDecline(r)
    \/ \E f \in flows : SwapWindowTimeout(f)
    \/ \E f \in flows : \E user \in Clickers(f.q) : \E ok \in BOOLEAN : Continue(f, user, ok)
    \/ \E f \in flows : \E user \in Range(f.turn_order) : \E i \in PickChoices :
          PlayerSelect(f, user, i)
    \/ \E f \in flows : \E user \in Range(f.turn_order) : ConfirmClick(f, user)
    \/ \E f \in flows : \E ok \in BOOLEAN : ConfirmDone(f, ok)
    \/ \E f \in flows : PickTimeout(f)
    \/ \E f \in flows : \E user \in Voters \cup Outsiders : \E m \in MapChoices :
          VoteMap(f, user, m)
    \/ \E f \in flows : \E channels_exist \in BOOLEAN : MapVoteTimeout(f, channels_exist)
    \/ \E f \in flows : \E ok \in BOOLEAN : CreateMatch(f, ok)
    \/ \E q \in QueueNums : \E t \in Teams : \E ok \in BOOLEAN : WinCommand(q, t, ok)
    \/ \E w \in wins : WinFinish(w)

Spec == Init /\ [][Next]_vars

(***************************************************************************)
(* The vote sessions on their own.  A behaviour starts where a session has  *)
(* just opened on a roster that filled in order, and the members vote as    *)
(* they like: a ballot is not charged to the budget of off-path events,     *)
(* which leaves and further joins still are.  The flow is followed up to    *)
(* the resolution of the session.                                           *)
(***************************************************************************)
Electors == {1, 2, 3}

FilledRoster == [i \in 1..QUEUE_SIZE |-> i]

\* the history of one fill with one captain vote opened and no match row yet
OneFill ==
    [sessions |-> [q \in QueueNums |-> <<1>>],
     rows |-> [q \in QueueNums |-> <<0>>],
     resets_of_match |-> <<>>]

\* the flow of that fill as start_captain_voting opens it
OpenedFlow ==
    [id |-> 1, q |-> 1, pc |-> "VotingView", fill |-> 1, buttons |-> FilledRoster,
     votes |-> {}, turn_order |-> <<>>, remaining |-> <<>>, current_captain |-> None,
     n_options |-> 0, selected_index |-> None, confirming |-> 0, chosen_map |-> "None",
     outlived_reset |-> FALSE]

\* the teams of a draft in which every captain took the first option
DraftedQueue ==
    [NewQueue EXCEPT !.players = FilledRoster, !.captains = <<1, 2>>,
                     !.team1 = <<1, 3, 6, 7, 9>>, !.team2 = <<2, 4, 5, 8, 10>>,
                     !.current_pick_index = 7]

\* the tenth join has opened the captain vote (line 398)
CaptainVoteOpens ==
    /\ queues = [q \in QueueNums |-> [NewQueue EXCEPT !.players = FilledRoster]]
    /\ flows = {OpenedFlow}
    /\ db = [matches |-> <<>>, players |-> <<>>, match_players |-> {}]
    /\ response = "Captain Voting"
    /\ hist = OneFill
    /\ joins = {} /\ swap_reqs = {} /\ wins = {} /\ spent = 0

\* the draft has placed its last player and opened the map vote (line 668)
MapVoteOpens ==
    /\ queues = [q \in QueueNums |-> start_map_voting(DraftedQueue)]
    /\ flows = {[OpenedFlow EXCEPT !.pc = "MapVotingView", !.buttons = <<>>]}
    /\ db = display_teams([matches |-> <<>>, players |-> <<>>, match_players |-> {}],
                          TRUE, DraftedQueue)
    /\ response = "none"
    /\ hist = OneFill
    /\ joins = {} /\ swap_reqs = {} /\ wins = {} /\ spent = 0

VoteInit == CaptainVoteOpens \/ MapVoteOpens

CastCaptainVote(f, user, candidate) ==
    /\ VoteButton_callback(f, user, candidate)
    /\ spent' = spent

CastMapVote(f, user, map_name) ==
    /\ MapVoteButton_callback(f, user, map_name)
    /\ spent' = spent

VoteNext ==
    \/ \E f \in flows : \E user \in Electors \cup Outsiders : \E c \in CaptainChoices :
          CastCaptainVote(f, user, c)
    \/ \E f \in flows : VotingTimeout(f)
    \/ \E f \in flows : \E user \in Electors \cup Outsiders : \E m \in MapChoices :
          CastMapVote(f, user, m)
    \/ \E f \in flows : \E channels_exist \in BOOLEAN : MapVoteTimeout(f, channels_exist)
    \/ \E q \in QueueNums : \E member \in Leavers : Leave(q, member)
    \/ \E q \in QueueNums : \E p \in JoinInputs(q) : JoinBegin(q, p)
    \/ \E j \in joins : JoinCheckFull(j)
    \/ \E j \in joins : JoinStartVoting(j)

VoteSpec == VoteInit /\ [][VoteNext]_vars

(***************************************************************************)
(* A vote session in which the whole roster votes.  Every member may cast   *)
(* a ballot, all for the same button, so that the session can reach the     *)
(* state in which nobody is left to vote.                                   *)
(***************************************************************************)
TurnoutCandidates == {2}
TurnoutMaps == {"Plaza"}

TurnoutNext ==
    \/ \E f \in flows : \E user \in Range(FilledRoster) : \E c \in TurnoutCandidates :
          CastCaptainVote(f, user, c)
    \/ \E f \in flows : VotingTimeout(f)
    \/ \E f \in flows : \E user \in Range(FilledRoster) : \E m \in TurnoutMaps :
          CastMapVote(f, user, m)
    \/ \E f \in flows : \E channels_exist \in BOOLEAN : MapVoteTimeout(f, channels_exist)

TurnoutSpec == VoteInit /\ [][TurnoutNext]_vars

(***************************************************************************)
(* The swap window and the draft on their own.  A behaviour starts where    *)
(* the captain vote of a roster that filled in order has drawn the          *)
(* captains <<1, 2>> and captain 1 has just asked for a swap; the request   *)
(* is decided at any time before or during the draft.                       *)
(***************************************************************************)
SwapRequested ==
    /\ queues = [q \in QueueNums |-> [NewQueue EXCEPT !.players = FilledRoster,
                                                      !.captains = <<1, 2>>]]
    /\ flows = {[OpenedFlow EXCEPT !.pc = "CaptainSwapView", !.buttons = <<>>]}
    /\ swap_reqs = {[id |-> 1, q |-> 1, user |-> 1]}
    /\ db = [matches |-> <<>>, players |-> <<>>, match_players |-> {}]
    /\ response = "Captain Swap Request"
    /\ hist = OneFill
    /\ joins = {} /\ wins = {} /\ spent = 0

SwapNext ==
    \/ \E r \in swap_reqs : \E user \in Clickers(r.q) : SwapConfirm(r, user)
    \/ \E r \in swap_reqs : SwapDecline(r)
    \/ \E q \in QueueNums : \E member \in Leavers : Leave(q, member)
    \/ \E f \in flows : \E user \in Clickers(f.q) : \E ok \in BOOLEAN : Continue(f, user, ok)
    \/ \E f \in flows : \E user \in Range(f.turn_order) : \E i \in PickChoices :
          PlayerSelect(f, user, i)
    \/ \E f \in flows : \E user \in Range(f.turn_order) : ConfirmClick(f, user)
    \/ \E f \in flows : \E ok \in BOOLEAN : ConfirmDone(f, ok)

SwapSpec == SwapRequested /\ [][SwapNext]_vars

(***************************************************************************)
(* Two queues side by side.  A behaviour starts where queue 1, reset once   *)
(* while it was empty, has filled in order and stands at the last prompt    *)
(* of its draft, and where queue 2 holds 8 members.  Queue 1 goes on to the *)
(* report of its match while queue 2 fills, loses members, is reset, votes  *)
(* for its captains and swaps one of them; the events of both interleave.   *)
(***************************************************************************)
QueuePair == {1, 2}

\* queue 1 before the 7th pick of a draft in which every captain took the
\* first option
LastPickQueue ==
    [reset(NewQueue) EXCEPT !.players = FilledRoster, !.captains = <<1, 2>>,
                            !.team1 = <<1, 3, 6, 7>>, !.team2 = <<2, 4, 5, 8>>,
                            !.current_pick_index = 6]

LastPickFlow ==
    [OpenedFlow EXCEPT !.pc = "PickView", !.buttons = <<>>,
                       !.turn_order = turn_order_of(<<1, 2>>),
                       !.remaining = <<9, 10>>, !.current_captain = 1, !.n_options = 2]

\* the members of queue 2 at the start
EarlyRoster == [i \in 1..(QUEUE_SIZE - 2) |-> i]

TwoQueuesInit ==
    /\ queues = [q \in QueuePair |->
                    IF q = 1 THEN LastPickQueue ELSE [NewQueue EXCEPT !.players = EarlyRoster]]
    /\ flows = {LastPickFlow}
    /\ db = [matches |-> <<>>, players |-> <<>>, match_players |-> {}]
    /\ response = "none"
    /\ hist = [sessions |-> [q \in QueuePair |-> IF q = 1 THEN <<1>> ELSE <<>>],
               rows |-> [q \in QueuePair |-> IF q = 1 THEN <<0>> ELSE <<>>],
               resets_of_match |-> <<>>]
    /\ joins = {} /\ swap_reqs = {} /\ wins = {} /\ spent = 0

\* the flows of queue q
FlowsOf(q) == {f \in flows : f.q = q}

TwoQueuesNext ==
    \/ \E p \in JoinInputs(2) : JoinBegin(2, p)
    \/ \E j \in joins : JoinCheckFull(j)
    \/ \E j \in joins : JoinStartVoting(j)
    \/ \E member \in Leavers : Leave(2, member)
    \/ ResetQueue(2)
    \/ \E f \in FlowsOf(2) : \E user \in Voters \cup Outsiders : \E c \in CaptainChoices :
          VoteCaptain(f, user, c)
    \/ \E f \in FlowsOf(2) : VotingTimeout(f)
    \/ \E f \in FlowsOf(2) : \E user \in Clickers(f.q) : SwapRequest(f, user)
    \/ \E r \in swap_reqs : \E user \in Clickers(r.q) : SwapConfirm(r, user)
    \/ \E r \in swap_reqs : SwapDecline(r)
    \/ \E f \in FlowsOf(1) : \E user \in Range(f.turn_order) : \E i \in PickChoices :
          PlayerSelect(f, user, i)
    \/ \E f \in FlowsOf(1) : \E user \in Range(f.turn_order) : ConfirmClick(f, user)
    \/ \E f \in FlowsOf(1) : \E ok \in BOOLEAN : ConfirmDone(f, ok)
    \/ \E f \in FlowsOf(1) : \E user \in Voters \cup Outsiders : \E m \in MapChoices :
          VoteMap(f, user, m)
    \/ \E f \in FlowsOf(1) : \E channels_exist \in BOOLEAN : MapVoteTimeout(f, channels_exist)
    \/ \E f \in FlowsOf(1) : \E ok \in BOOLEAN : CreateMatch(f, ok)
    \/ \E t \in Teams : \E ok \in BOOLEAN : WinCommand(1, t, ok)
    \/ \E w \in wins : WinFinish(w)

TwoQueuesSpec == TwoQueuesInit /\ [][TwoQueuesNext]_vars

(***************************************************************************)
(* The store under queries.  Members ask for the stats of any participant, *)
(* with the store in reach or not, and nothing else happens.               *)
(***************************************************************************)
ScoreNext == \E member \in Participants : \E ok \in BOOLEAN : ScoreCommand(member, ok)

ScoreSpec == Init /\ [][ScoreNext]_vars

(***************************************************************************)
(* The draft on its own, with its timers.  A behaviour starts where the    *)
(* captain vote of a roster that filled in order has drawn the captains    *)
(* <<1, 2>>.  A prompt may time out at any turn, which is not charged to   *)
(* the budget of off-path events.  The timer of an open prompt fires in    *)
(* the end, and a callback suspended in its message to the channel         *)
(* resumes.                                                                *)
(***************************************************************************)
CaptainsDrawn ==
    /\ queues = [q \in QueueNums |-> [NewQueue EXCEPT !.players = FilledRoster,
                                                      !.captains = <<1, 2>>]]
    /\ flows = {[OpenedFlow EXCEPT !.pc = "CaptainSwapView", !.buttons = <<>>]}
    /\ db = [matches |-> <<>>, players |-> <<>>, match_players |-> {}]
    /\ response = "Team Captains Selected"
    /\ hist = OneFill
    /\ joins = {} /\ swap_reqs = {} /\ wins = {} /\ spent = 0

PromptExpires(f) ==
    /\ PickView_timeout(f)
    /\ spent' = spent

DraftNext ==
    \/ \E f \in flows : \E user \in Clickers(f.q) : \E ok \in BOOLEAN : Continue(f, user, ok)
    \/ \E f \in flows : \E user \in Range(f.turn_order) : \E i \in PickChoices :
          PlayerSelect(f, user, i)
    \/ \E f \in flows : \E user \in Range(f.turn_order) : ConfirmClick(f, user)
    \/ \E f \in flows : \E ok \in BOOLEAN : ConfirmDone(f, ok)
    \/ \E f \in flows : PromptExpires(f)

DraftSpec ==
    /\ CaptainsDrawn
    /\ [][DraftNext]_vars
    /\ WF_vars(\E f \in flows : PromptExpires(f))
    /\ WF_vars(\E f \in flows : \E ok \in BOOLEAN : ConfirmDone(f, ok))

(***************************************************************************)
(* Properties                                                              *)
(***************************************************************************)
\* the row of a player as get_player_stats reads it
StatsRow(store, p) == IF p \in DOMAIN store.players THEN store.players[p] ELSE ZeroRow

\* C1, as stated: the roster of every queue holds between 0 and 10
\* participants, and every join attempted while the roster holds 10 is
\* answered "Queue Full" and leaves the roster unchanged.
C1_JoinOnFullIsQueueFull ==
    /\ [](\A q \in DOMAIN queues : Len(queues[q].players) \in 0..QUEUE_SIZE)
    /\ [][\A q \in DOMAIN queues : \A p \in Participants :
            (Len(queues[q].players) = QUEUE_SIZE /\ JoinBegin(q, p))
            => /\ response' = "Queue Full"
               /\ queues'[q].players = queues[q].players]_vars

\* C1, amended: the roster of every queue holds between 0 and 10
\* participants, and every join attempted while the roster holds 10 is
\* rejected and leaves the roster unchanged: with "Queue Full" when the
\* caller is not in the roster, with "Already in Queue" when the caller is.
C1_RosterBounded ==
    /\ [](\A q \in DOMAIN queues : Len(queues[q].players) \in 0..QUEUE_SIZE)
    /\ [][\A q \in DOMAIN queues : \A p \in Participants :
            (Len(queues[q].players) = QUEUE_SIZE /\ JoinBegin(q, p))
            => /\ response' = IF Contains(queues[q].players, p)
                              THEN "Already in Queue" ELSE "Queue Full"
               /\ queues'[q].players = queues[q].players]_vars

\* a join by a participant outside a full roster has been answered "Queue Full"
C1_Witness ==
    \E q \in DOMAIN queues : \E j \in joins :
        /\ j.q = q /\ j.pc = "replied"
        /\ Len(queues[q].players) = QUEUE_SIZE
        /\ ~Contains(queues[q].players, j.user)
        /\ response = "Queue Full"

\* C2: for every fill of a roster (an accepted join that brings it from 9
\* to 10) at most one captain vote is opened, whatever further join
\* attempts arrive while the roster stays at 10.
C2_OneVotePerFill ==
    \A q \in QueueNums : \A n \in 1..Len(hist.sessions[q]) : hist.sessions[q][n] <= 1

\* C3: no participant is ever a member of both teams, and when a draft has
\* completed (its map vote is open) the sizes of the teams sum to 10.
C3_TeamsPartitionRoster ==
    \A q \in DOMAIN queues :
        /\ Range(queues[q].team1) \cap Range(queues[q].team2) = {}
        /\ (\E f \in flows : f.q = q /\ f.pc = "MapVotingView")
           => Len(queues[q].team1) + Len(queues[q].team2) = QUEUE_SIZE

\* C4: an accepted report of winning team W adds 1 to matches_played and to
\* wins and 20 to points in the row of every member of team W, and adds 1 to
\* matches_played and nothing to wins and points in the row of every member
\* of the other team.
C4_StatsFollowReport ==
    [][\A w \in wins' \ wins :
          LET queue == queues[w.q]
              winners == IF w.winning_team = 1 THEN queue.team1 ELSE queue.team2
              losers == IF w.winning_team = 1 THEN queue.team2 ELSE queue.team1
          IN  /\ \A p \in Range(winners) :
                    /\ StatsRow(db', p).matches_played = StatsRow(db, p).matches_played + 1
                    /\ StatsRow(db', p).wins = StatsRow(db, p).wins + 1
                    /\ StatsRow(db', p).points = StatsRow(db, p).points + WIN_POINTS
              /\ \A p \in Range(losers) :
                    /\ StatsRow(db', p).matches_played = StatsRow(db, p).matches_played + 1
                    /\ StatsRow(db', p).wins = StatsRow(db, p).wins
                    /\ StatsRow(db', p).points = StatsRow(db, p).points]_vars

\* C5: every report on a queue whose match_reported is true is rejected and
\* changes neither the rows of the players nor the stored winner, nor the
\* queue; it is answered "Match Already Reported" whenever the queue holds
\* a match_id (a reset by an admin while the report was in flight leaves the
\* flag without a match_id, and the answer is then "No Active Match").
C5_ReportedStaysReported ==
    [][\A q \in DOMAIN queues : \A t \in Teams : \A ok \in BOOLEAN :
          (queues[q].match_reported = "True" /\ WinCommand(q, t, ok))
          => /\ response' = IF queues[q].match_id = None
                            THEN "No Active Match" ELSE "Match Already Reported"
             /\ db' = db
             /\ queues' = queues]_vars

\* a report arrived after the reported match was reset, and was rejected
C5_Witness ==
    \E q \in DOMAIN queues :
        /\ queues[q].match_reported = "True"
        /\ queues[q].match_id \in 1..Len(db.matches)
        /\ queues[q].players = <<>>
        /\ wins = {}
        /\ response = "Match Already Reported"

\* C6: the first report on a queue whose match_id names a stored match that
\* has no winner yet is accepted: it persists the winner and sets
\* match_reported.
C6_FirstReportAccepted ==
    [][\A q \in DOMAIN queues : \A t \in Teams :
          LET match_id == queues[q].match_id
          IN  (/\ match_id \in 1..Len(db.matches)
               /\ db.matches[match_id].winner_team = None
               /\ hist.resets_of_match[match_id] = 0
               /\ wins = {}
               /\ WinCommand(q, t, TRUE))
              => /\ db'.matches[match_id].winner_team = t
                 /\ queues'[q].match_reported = "True"]_vars

\* C7: the winner of a match, once written, is never overwritten, a queue is
\* reset by a report at most once per match, and a report that arrives while
\* another is in flight for the match the queue holds (or after a reset took
\* the match_id away) is rejected.
C7_OneReportPerMatch ==
    /\ [](\A m \in 1..Len(hist.resets_of_match) : hist.resets_of_match[m] <= 1)
    /\ [][/\ \A m \in 1..Len(db.matches) :
                db.matches[m].winner_team # None
                => db'.matches[m].winner_team = db.matches[m].winner_team
          /\ \A q \in DOMAIN queues : \A t \in Teams : \A ok \in BOOLEAN :
                ((\E w \in wins : w.q = q /\ queues[q].match_id \in {w.match_id, None})
                 /\ WinCommand(q, t, ok))
                => /\ wins' = wins
                   /\ db' = db
                   /\ response' \in {"Match Already Reported", "No Active Match"}]_vars

\* a second report arrived while the first was in flight, and was rejected
C7_Witness ==
    /\ \E w \in wins : queues[w.q].match_reported = "True" /\ queues[w.q].players # <<>>
    /\ response = "Match Already Reported"

\* C8: a report during which the store fails is answered "Database Error"
\* and changes nothing of the queue; match_reported is false before and
\* after, so that the same report passes the checks again.
C8_StoreFailureKeepsQueue ==
    [][\A q \in DOMAIN queues : \A t \in Teams :
          WinCommand(q, t, FALSE)
          => /\ response' = "Database Error"
             /\ queues' = queues
             /\ wins' = wins
             /\ queues'[q].match_reported = "False"
             /\ win_check(queues'[q]) = "ok"]_vars

\* a report has failed on the store
C8_Witness ==
    /\ response = "Database Error"
    /\ \E q \in DOMAIN queues : queues[q].match_id \in 1..Len(db.matches)
                                /\ queues[q].match_reported = "False"

\* C9: a match_id a queue holds names a row of the matches table, and a map
\* vote resolution during which create_match fails does not set match_id.
C9_MatchIdIsBacked ==
    /\ [](\A q \in DOMAIN queues :
            queues[q].match_id \notin {NoAttr, None}
            => queues[q].match_id \in 1..Len(db.matches))
    /\ [][\A f \in flows : CreateMatch(f, FALSE)
                           => queues'[f.q].match_id = queues[f.q].match_id]_vars

\* a map vote resolution has stored the identifier create_match returned
C9_Witness ==
    /\ response = "Match Ready!"
    /\ \E q \in DOMAIN queues : queues[q].match_id \in 1..Len(db.matches)

\* C10: for every fill of a roster at most one match row is inserted.
C10_OneRowPerCycle ==
    \A q \in QueueNums : \A n \in 1..Len(hist.rows[q]) : hist.rows[q][n] <= 1

\* C11: a captain swap is applied only by the acceptance of the captain who
\* did not request it; a Yes pressed by the requesting captain, or by anyone
\* else, never changes the queue.
C11_OtherCaptainAccepts ==
    [][\A r \in swap_reqs : \A user \in Participants :
          (SwapConfirm(r, user) /\ queues'[r.q] # queues[r.q])
              => (Contains(queues[r.q].captains, user) /\ user # r.user)]_vars

\* C12: an accepted swap puts a former non-captain roster member in the
\* requesting captain's slot, leaves the other slot alone, keeps the former
\* captain on the roster as a non-captain, and leaves the roster the same
\* set of distinct participants.
C12_SwapKeepsRoster ==
    [][\A r \in swap_reqs : \A user \in Participants :
          (SwapConfirm(r, user) /\ queues'[r.q] # queues[r.q]) =>
              LET old == queues[r.q]
                  new == queues'[r.q]
                  i == IF r.user = old.captains[1] THEN 1 ELSE 2
              IN  /\ new.captains[i] \in Range(old.players) \ Range(old.captains)
                  /\ new.captains[3 - i] = old.captains[3 - i]
                  /\ old.captains[i] \in Range(new.players) \ Range(new.captains)
                  /\ Range(new.players) = Range(old.players)
                  /\ Cardinality(Range(new.players)) = Len(new.players)]_vars

\* C13: when the swap window times out with neither continue pressed nor a
\* swap decided, the timeout starts the draft as continue would have: the
\* flow goes on to its first pick prompt.
C13_SwapTimeoutStartsDraft ==
    [][\A f \in flows : SwapWindowTimeout(f) =>
          \E g \in flows' : g.id = f.id /\ g.pc = "PickView"]_vars

\* the pairs of distinct members of a roster
RosterPairs(players) ==
    {c \in Range(players) \X Range(players) : c[1] # c[2]}

\* C14: a captain vote that resolves with fewer than 2 candidates voted for
\* draws 2 distinct captains from the whole roster: every pair of roster
\* members is a possible result, a pair without the one candidate who
\* received votes included, and the captains set are one of these pairs.
C14_FewVotesDrawAnyPair ==
    /\ [](\A f \in flows :
            LET queue == queues[f.q]
            IN  (f.pc = "VotingView" /\ Len(queue.captain_votes) < 2
                    /\ Len(queue.players) >= 3) =>
                    /\ chosen_captains(queue) = RosterPairs(queue.players)
                    /\ \E chosen \in chosen_captains(queue) :
                          Range(chosen) \cap CounterKeys(queue.captain_votes) = {})
    /\ [][\A f \in flows :
            (Len(queues[f.q].captain_votes) < 2 /\ Len(queues[f.q].players) >= 2
                /\ response' = "Team Captains Selected" /\ VotingTimeout(f)) =>
                queues'[f.q].captains \in RosterPairs(queues[f.q].players)]_vars

\* a vote with one candidate voted for has resolved into two captains
\* neither of whom is that candidate
C14_Witness ==
    \E q \in DOMAIN queues :
        /\ response = "Team Captains Selected"
        /\ Len(queues[q].captain_votes) = 1
        /\ Len(queues[q].captains) = 2
        /\ queues[q].captain_votes[1][1] \notin Range(queues[q].captains)

C16_TieBrokenAtRandom ==
    \A f \in flows :
        LET tally == queues[f.q].captain_votes
        IN  (f.pc = "VotingView" /\ Len(tally) >= 2) =>
                \A i \in 1..2 : \A k \in CounterKeys(tally) :
                    CounterCount(tally, k) = most_common(tally)[i][2] =>
                        \E chosen \in chosen_captains(queues[f.q]) : chosen[i] = k

\* the maps of the pool that no other map has more votes than
TopMaps(tally) ==
    {m \in Range(map_pool) :
        \A o \in Range(map_pool) : CounterCount(tally, o) <= CounterCount(tally, m)}

\* C17: a map vote that resolves with at least one vote chooses a map with
\* the maximal vote count; when several maps share the maximum, each of
\* them and no other map is a possible result.
C17_MapWithMostVotes ==
    /\ [](\A f \in flows :
            (f.pc = "MapVotingView" /\ queues[f.q].map_votes # <<>>) =>
                chosen_maps(queues[f.q]) = TopMaps(queues[f.q].map_votes))
    /\ [][\A f \in flows : \A channels_exist \in BOOLEAN :
            (queues[f.q].map_votes # <<>> /\ response' = "Map Selection"
                /\ MapVoteTimeout(f, channels_exist)) =>
                queues'[f.q].chosen_map \in TopMaps(queues[f.q].map_votes)]_vars

\* a map vote with two maps tied has resolved for the map voted for second
C17_Witness ==
    \E q \in DOMAIN queues :
        /\ response = "Map Selection"
        /\ Len(queues[q].map_votes) = 2
        /\ queues[q].map_votes[1][2] = queues[q].map_votes[2][2]
        /\ queues[q].chosen_map = queues[q].map_votes[2][1]

\* C18: whenever a map vote resolves, with or without votes, the queue's
\* chosen_map is set to a map of the pool and is the map that goes on to
\* create_match.
C18_ChosenMapRecorded ==
    [][\A f \in flows : \A channels_exist \in BOOLEAN :
          (response' = "Map Selection" /\ MapVoteTimeout(f, channels_exist)) =>
              /\ queues'[f.q].chosen_map \in Range(map_pool)
              /\ \A g \in flows' :
                    g.id = f.id => g.chosen_map = queues'[f.q].chosen_map]_vars

\* the participants with a ballot in a view of queue q
BallotsCast(q) == {v[1] : v \in UNION {f.votes : f \in {g \in flows : g.q = q}}}

\* C19: at the resolution of a vote every voter has contributed at most one
\* vote: the vote counts sum to no more than the number of distinct
\* participants who voted.  For the captain vote the voters are those with
\* a ballot in a view of the queue, none of which has been closed yet.
C19_OneVotePerVoter ==
    /\ [][\A f \in flows :
            (response' = "Team Captains Selected" /\ VotingTimeout(f)
                /\ \A g \in flows : g.q = f.q => g.pc = "VotingView") =>
                CounterTotal(queues[f.q].captain_votes) <= Cardinality(BallotsCast(f.q))]_vars
    /\ [][\A f \in flows : \A channels_exist \in BOOLEAN :
            (response' = "Map Selection" /\ MapVoteTimeout(f, channels_exist)) =>
                CounterTotal(queues[f.q].map_votes)
                    <= Cardinality(queues[f.q].voted_players)]_vars

\* C20: the eligible voters of a captain vote are the roster at the moment
\* the vote opened, for which the view made its buttons: a first ballot of
\* one of them is counted whenever it is cast before the resolution, and a
\* ballot of anyone else is rejected and leaves the tally unchanged.
C20_ElectorateFixedAtOpening ==
    [][\A f \in flows : \A user \in Participants : \A candidate \in Participants :
          VoteButton_callback(f, user, candidate) =>
              IF Contains(f.buttons, user)
              THEN (\A v \in f.votes : v[1] # user) => response' = "You voted"
              ELSE /\ response' = "You are not in the queue"
                   /\ queues'[f.q].captain_votes = queues[f.q].captain_votes]_vars

\* C21: a vote session resolves as soon as every eligible voter has cast a
\* ballot: no captain vote and no map vote is still open, waiting for its
\* deadline, once every member of the roster has voted in it.
C21_ResolvesOnFullTurnout ==
    \A f \in flows :
        /\ f.pc = "VotingView" =>
              ~(Range(queues[f.q].players) \subseteq {v[1] : v \in f.votes})
        /\ f.pc = "MapVotingView" =>
              ~(Range(queues[f.q].players) \subseteq queues[f.q].voted_players)

\* C22: in a draft with captains (CA, CB), as long as the queue holds two
\* captains, the captains prompted are, in order, CA, CB, CB, CA, CA, CB, CA
\* and no prompt follows the 7th; each accepted pick leaves the pool and
\* joins the team of the captain whose turn it is, team A for CA and team B
\* for CB.
C22_ScriptedPicks ==
    /\ [](\A f \in flows :
            (f.pc = "PickView" /\ Len(queues[f.q].captains) = 2) =>
                /\ queues[f.q].current_pick_index < 7
                /\ f.turn_order = <<f.turn_order[1], f.turn_order[2], f.turn_order[2],
                                    f.turn_order[1], f.turn_order[1], f.turn_order[2],
                                    f.turn_order[1]>>
                /\ f.current_captain = f.turn_order[queues[f.q].current_pick_index + 1])
    /\ [][\A f \in flows : \A user \in Participants :
            (f.pc = "PickView" /\ user = f.current_captain
                /\ Len(queues[f.q].captains) = 2
                /\ response' = "Player Picked" /\ ConfirmClick(f, user)) =>
                LET pick == f.remaining[f.selected_index + 1]
                    old == queues[f.q]
                    new == queues'[f.q]
                IN  /\ \E g \in flows' :
                          g.id = f.id /\ g.remaining = ListPop(f.remaining, f.selected_index)
                    /\ IF f.current_captain = f.turn_order[1]
                       THEN new.team1 = Append(old.team1, pick) /\ new.team2 = old.team2
                       ELSE new.team2 = Append(old.team2, pick) /\ new.team1 = old.team1]_vars

\* C23: a selection or a confirmation by anyone other than the captain
\* whose turn it is, the other captain included, is rejected and leaves the
\* pool, both teams and the draft cursor as they were.
C23_WrongTurnRejected ==
    [][\A f \in flows : \A user \in Participants \ {f.current_captain} :
          /\ (f.pc = "PickView" /\ \E index \in 0..(QUEUE_SIZE - 1) : PlayerSelect(f, user, index)) =>
                /\ response' = "It's not your turn"
                /\ UNCHANGED <<queues, flows>>
          /\ (f.pc = "PickView" /\ ConfirmClick(f, user)) =>
                /\ response' = "You can't confirm this pick"
                /\ UNCHANGED <<queues, flows>>]_vars

\* the other captain has pressed the confirm button out of turn
C23_Witness ==
    /\ response = "You can't confirm this pick"
    /\ \E f \in flows : f.pc = "PickView" /\ f.current_captain # None

\* the flow f has left its draft for the map vote in this step
DraftCompletes(f) ==
    /\ f.pc = "PickView"
    /\ \E g \in flows' : g.id = f.id /\ g.pc = "MapVotingView"

\* C24: the participant left after the scripted picks goes to the team
\* that has fewer members, and to team A when both have the same number.
C24_LastPlayerToSmallerTeam ==
    [][\A f \in flows :
          (DraftCompletes(f) /\ f.remaining # <<>>) =>
              LET old == queues[f.q]
                  new == queues'[f.q]
              IN  IF Len(old.team1) <= Len(old.team2)
                  THEN new.team1 = Append(old.team1, f.remaining[1]) /\ new.team2 = old.team2
                  ELSE new.team2 = Append(old.team2, f.remaining[1]) /\ new.team1 = old.team1]_vars

\* C25: a draft that completes leaves 5 members on team A, 5 on team B and
\* nobody in the pool.
C25_DraftEndsFiveFive ==
    [][\A f \in flows :
          DraftCompletes(f) =>
              /\ Len(queues'[f.q].team1) = 5
              /\ Len(queues'[f.q].team2) = 5
              /\ Len(f.remaining) = 1]_vars

\* C26: when the draft starts on a roster of 10, team A is [captains[0]],
\* team B is [captains[1]] and the pool holds 8 distinct participants, none
\* of them a captain, also after an accepted captain swap.
C26_DraftStartsWithEight ==
    [][\A f \in flows : \A user \in Participants : \A ok \in BOOLEAN :
          (f.pc = "CaptainSwapView" /\ Len(queues[f.q].players) = QUEUE_SIZE
              /\ response' = "Continuing to player selection"
              /\ Continue(f, user, ok)) =>
              /\ queues'[f.q].team1 = <<queues[f.q].captains[1]>>
              /\ queues'[f.q].team2 = <<queues[f.q].captains[2]>>
              /\ \A g \in flows' :
                    g.id = f.id =>
                        /\ Len(g.remaining) = 8
                        /\ Cardinality(Range(g.remaining)) = 8
                        /\ Range(g.remaining) \cap Range(queues[f.q].captains) = {}]_vars

\* C27: a winner report on a queue whose match_id is unset is rejected with
\* "No Active Match" and changes nothing, also on a queue that was just
\* created and never reset, and on one whose match is still being formed.
C27_NoActiveMatch ==
    [][\A q \in DOMAIN queues : \A t \in Teams : \A ok \in BOOLEAN :
          (queues[q].match_id \in {None, NoAttr} /\ WinCommand(q, t, ok)) =>
              /\ response' = "No Active Match"
              /\ UNCHANGED <<queues, db, wins>>]_vars

C29_MatchIdStaysSet ==
    [][\A q \in DOMAIN queues :
          queues[q].match_id \notin {None, NoAttr} =>
              queues'[q].match_id \notin {None, NoAttr}]_vars

\* the flow f runs the handler of one of its deadlines in this step
TimerFires(f) ==
    \/ response' = "Team Captains Selected" /\ VotingTimeout(f)
    \/ f.pc = "PickView" /\ PickTimeout(f)
    \/ \E channels_exist \in BOOLEAN : response' = "Map Selection" /\ MapVoteTimeout(f, channels_exist)
    \/ \E ok \in BOOLEAN : f.pc = "create_match" /\ CreateMatch(f, ok)

\* C30: after a reset of its queue, and until a new fill brings the roster
\* to 10, a timer that was pending before the reset changes nothing when it
\* fires: captains, teams, chosen_map and match_id stay as the reset left
\* them.
C30_StaleTimerChangesNothing ==
    [][\A f \in flows :
          (f.outlived_reset /\ f.fill = Len(hist.sessions[f.q]) /\ TimerFires(f)) =>
              /\ queues'[f.q].captains = queues[f.q].captains
              /\ queues'[f.q].team1 = queues[f.q].team1
              /\ queues'[f.q].team2 = queues[f.q].team2
              /\ queues'[f.q].chosen_map = queues[f.q].chosen_map
              /\ queues'[f.q].match_id = queues[f.q].match_id]_vars

\* the vote sessions open on queue q
OpenSessions(q) == {f \in flows : f.q = q /\ f.pc \in {"VotingView", "MapVotingView"}}

\* C31: a join answered "Already in Queue" or "Queue Full" changes nothing
\* of its queue, neither in the step that answers it nor in the rest of the
\* command: roster, captain-vote tally, captains, teams, cursor, chosen_map
\* and match_id stay, and so does the set of open vote sessions.
C31_RejectedJoinChangesNothing ==
    /\ [][\A q \in DOMAIN queues : \A p \in Participants :
            (response' \in {"Already in Queue", "Queue Full"} /\ JoinBegin(q, p)) =>
                /\ queues'[q] = queues[q]
                /\ flows' = flows]_vars
    /\ [][\A j \in joins :
            (j.reply # "Queue Update" /\ (JoinCheckFull(j) \/ JoinStartVoting(j))) =>
                /\ queues'[j.q] = queues[j.q]
                /\ {f.id : f \in OpenSessions(j.q)}' = {f.id : f \in OpenSessions(j.q)}]_vars

\* C32: the captains list of a queue has 0 or 2 entries, two different
\* participants when it has 2, and it becomes non-empty only by the
\* resolution of a captain vote whose roster holds 10 members.
C32_CaptainsZeroOrTwo ==
    /\ [](\A q \in DOMAIN queues :
            /\ Len(queues[q].captains) \in {0, 2}
            /\ Len(queues[q].captains) = 2 => queues[q].captains[1] # queues[q].captains[2])
    /\ [][\A q \in DOMAIN queues :
            (queues[q].captains = <<>> /\ queues'[q].captains # <<>>) =>
                /\ \E f \in flows : f.q = q /\ VotingTimeout(f)
                /\ Len(queues[q].players) = QUEUE_SIZE]_vars

\* C33: whenever the teams of a queue are non-empty (the roster holding its
\* 10 entries, the queue its two captains, and one captain vote having
\* been opened per fill), team A starts with captains[0], team B with captains[1], and
\* every member of either team is on the roster, after an accepted captain
\* swap as well.
C33_TeamsLedByCaptains ==
    \A q \in DOMAIN queues :
        LET queue == queues[q]
        IN  (/\ queue.team1 # <<>> /\ queue.team2 # <<>>
             /\ Len(queue.players) = QUEUE_SIZE /\ Len(queue.captains) = 2
             /\ \A n \in 1..Len(hist.sessions[q]) : hist.sessions[q][n] <= 1) =>
                /\ queue.team1[1] = queue.captains[1]
                /\ queue.team2[1] = queue.captains[2]
                /\ Range(queue.team1) \cup Range(queue.team2) \subseteq Range(queue.players)

\* C34: a voice-leave event takes the member off the roster when the
\* member is on it, the others keeping their order, and changes nothing
\* when the member is not; no other field of the queue changes.
C34_LeaveRemovesMember ==
    [][\A q \in DOMAIN queues : \A member \in Participants :
          Leave(q, member) =>
              /\ queues'[q].players = SelectSeq(queues[q].players, LAMBDA p : p # member)
              /\ queues'[q] = [queues[q] EXCEPT !.players = queues'[q].players]]_vars

\* this step is an operation on queue q: a command that names it, a voice
\* event of its channel, a callback or a timeout of one of its views
OperationOn(q) ==
    \/ \E p \in Participants : JoinBegin(q, p)
    \/ \E j \in joins : j.q = q /\ (JoinCheckFull(j) \/ JoinStartVoting(j))
    \/ \E member \in Participants : Leave(q, member)
    \/ ResetQueue(q)
    \/ \E r \in swap_reqs : r.q = q /\ (SwapDecline(r) \/ \E user \in Participants : SwapConfirm(r, user))
    \/ \E t \in Teams : \E ok \in BOOLEAN : WinCommand(q, t, ok)
    \/ \E w \in wins : w.q = q /\ WinFinish(w)
    \/ \E f \in FlowsOf(q) :
          \/ VotingTimeout(f) \/ SwapWindowTimeout(f) \/ PickTimeout(f)
          \/ \E user \in Participants :
                \/ \E c \in Participants : VoteCaptain(f, user, c)
                \/ SwapRequest(f, user)
                \/ \E i \in 0..(QUEUE_SIZE - 1) : PlayerSelect(f, user, i)
                \/ ConfirmClick(f, user)
                \/ \E m \in Range(map_pool) : VoteMap(f, user, m)
          \/ \E ok \in BOOLEAN :
                \/ \E user \in Participants : Continue(f, user, ok)
                \/ ConfirmDone(f, ok) \/ MapVoteTimeout(f, ok) \/ CreateMatch(f, ok)

\* C35: an operation on one queue leaves the state of every other queue as
\* it was, however the operations on two queues interleave; and a join to
\* a queue that exists works on the queue as it is, all its fields but the
\* roster unchanged and the roster kept or extended by the caller.
C35_QueuesIndependent ==
    /\ [][\A q \in QueuePair : \A o \in DOMAIN queues \ {q} :
            queues'[o] = queues[o] \/ ~OperationOn(q)]_vars
    /\ [][\A q \in DOMAIN queues : \A p \in Participants :
            (joins' # joins /\ JoinBegin(q, p)) =>
                /\ queues'[q].players \in {queues[q].players, Append(queues[q].players, p)}
                /\ queues'[q] = [queues[q] EXCEPT !.players = queues'[q].players]]_vars

\* a member has joined queue 2 while queue 1 holds the teams of its draft
\* and the match made of them
C35_Witness ==
    /\ \E j \in joins : j.q = 2 /\ j.reply = "Queue Update"
    /\ response = "Queue Update"
    /\ Len(queues[2].players) = QUEUE_SIZE
    /\ Len(queues[1].team1) = 5 /\ Len(queues[1].team2) = 5
    /\ queues[1].match_id \in 1..Len(db.matches)

\* C36: a query of the stats of a participant who has no row in the store
\* returns points 0, matches_played 0, wins 0 and leaves the store as it
\* was: the query creates no row.
C36_QueryCreatesNoRecord ==
    [][\A member \in Participants :
          (member \notin DOMAIN db.players /\ ScoreCommand(member, TRUE)) =>
              /\ get_player_stats(db, TRUE, member) = ZeroRow
              /\ db' = db]_vars

\* C37: every draft terminates, provided its timers fire: once a pick
\* prompt is open, the flow reaches the map vote.
C37_DraftTerminates ==
    (\E f \in flows : f.pc = "PickView") ~> (\E f \in flows : f.pc = "MapVotingView")

C39_OnePickPerTurn ==
    [][\A f \in flows : \A user \in Participants :
          (f.pc = "PickView" /\ f.confirming > 0 /\ user = f.current_captain
              /\ ConfirmClick(f, user)) =>
              /\ queues'[f.q].team1 = queues[f.q].team1
              /\ queues'[f.q].team2 = queues[f.q].team2
              /\ \A g \in flows' : g.id = f.id => g.remaining = f.remaining]_vars

\* C40: once the draft of a queue has started (its teams are initialised),
\* no captain swap changes its captains or its roster: a Yes to a request
\* that was pending when a captain pressed Continue applies nothing, and
\* team A keeps starting with captains[0], team B with captains[1].
C40_NoSwapAfterDraftStart ==
    [][\A r \in swap_reqs : \A user \in Participants :
          (queues[r.q].team1 # <<>> /\ queues[r.q].team2 # <<>>
              /\ queues[r.q].team1[1] = queues[r.q].captains[1]
              /\ queues[r.q].team2[1] = queues[r.q].captains[2]
              /\ SwapConfirm(r, user)) =>
              /\ queues'[r.q].captains = queues[r.q].captains
              /\ queues'[r.q].players = queues[r.q].players
              /\ queues'[r.q].team1[1] = queues'[r.q].captains[1]
              /\ queues'[r.q].team2[1] = queues'[r.q].captains[2]]_vars

====
